---- MODULE Spec2Model ----
\* Managed-thread harness of properly-concurrent: the pause gate
\* (SharedContext), the instrumented AtomicU32, the ManagedHandle API and
\* the test drivers of lib.rs, as one state machine.
EXTENDS Naturals, Sequences, FiniteSets

\* Cap on the increments the free-running driver submits (pbt draws until
\* its entropy is exhausted; exhaustytest caps at increment_count).
MaxIncrements == 3

\* Cap on the closures sent by the callers that ignore the contract.
MaxMisuseSubmits == 2

\* Cap on the increments submitted while an unmanaged thread runs.
MaxPassSubmits == 2

\* Number of Counter calls an unmanaged thread makes.
MaxPlainCalls == 2

None == "none"

\* One worker thread, one gate and one handle per managed thread; the gate
\* and the handle are named after their worker.
Workers == {"w1", "w2"}

\* Threads that call the handle API. "main" is the test's own thread;
\* "rogue" is a second caller, idle unless a specification wakes it.
Drivers == {"main", "rogue"}

\* A thread started with plain scope.spawn, as in threaded_test: it calls
\* the Counter directly and never registers a gate.  Off unless a
\* specification starts it.
Unmanaged == {"plain"}

Threads == Workers \cup Drivers \cup Unmanaged

\* let mut threads = [t1, t2]
HandleOrder == <<"w1", "w2">>

HandleIndex(h) == CHOOSE i \in 1..Len(HandleOrder) : HandleOrder[i] = h

\* An increment split back into a load and a store.
IncrementSplit == <<"load", "store">>

\* The commented-out alternative: self.value.fetch_add(1, SeqCst).
IncrementFetchAdd == <<"fetch_add">>

\* An increment that is one atomic read-modify-write.
IncrementAtomic == <<"fetch_add">>

\* Counter::increment as the sequence of instrumented operations it makes.
Increment == <<"load", "store">>

\* Counter::get
CounterGet == <<"load">>

VARIABLES
  state,          \* gate -> "Ready" | "Running" | "Paused"   (Mutex<State>)
  mutex,          \* gate -> the thread holding the gate's mutex, or None
  poisoned,       \* gate -> the mutex was held by a panicking thread
  cv,             \* gate -> threads blocked on the Condvar, not yet notified
  chan,           \* handle -> closures sent and not yet received
  closed,         \* handle -> the Sender was dropped
  tls,            \* thread -> the gate in its thread-local INSTANCE, or None
  value,          \* Counter.value.inner
  pc,             \* thread -> where it is
  ops,            \* thread -> instrumented operations left in its current call
  local,          \* thread -> result of its last raw load / fetch_add
  panic,          \* thread -> why it panicked, or None
  dh,             \* driver -> the handle of its current call
  dret,           \* driver -> who called: pbt's "loop" or "join",
                  \*   exhaustytest's "exloop" or "exjoin"
  counter_model,  \* the test's count of increments issued
  submitted,      \* handle -> closures sent so far
  completed,      \* handle -> closures the worker has finished
  script,         \* decisions left in a scripted decision source
  increment_count, \* exhaustytest's increment_count (unused by pbt)
  joined,         \* handles whose join has returned (consumed by join)
  todo            \* unmanaged thread -> the Counter calls it has yet to make

vars == <<state, mutex, poisoned, cv, chan, closed, tls, value, pc, ops,
          local, panic, dh, dret, counter_model, submitted, completed,
          script, increment_count, joined, todo>>

----
\* SharedContext

\* A registry that is one process-wide slot instead of a thread-local.
SharedContextGetGlobal(t) == IF tls[t] # None THEN tls[t] ELSE HandleOrder[1]

\* SharedContext::get: this thread's INSTANCE.
SharedContextGet(t) == tls[t]

\* A notification that wakes nobody.
NotifyNobody(g) == cv

\* Condvar::notify_all: every thread blocked on the gate's condvar becomes
\* runnable (it still has to reacquire the mutex).
NotifyAll(g) == [cv EXCEPT ![g] = {}]

\* A pause that marks the gate idle.
PauseStateReady == "Ready"

\* *guard = State::Paused in SharedContext::pause.
PauseState == "Paused"

\* A completion that leaves the gate Running.
CompleteStateRunning == "Running"

\* *guard = State::Ready in the worker loop.
CompleteState == "Ready"

\* The assert_eq! preconditions on the gate state.
PauseAssert(s) == s = "Running"

CompleteAssert(s) == s = "Running"

\* unpause without its assertion.
UnpauseAssertNone(s) == TRUE

UnpauseAssert(s) == s = "Paused"

\* submit without its assertion.
SubmitAssertNone(s) == TRUE

SubmitAssert(s) == s = "Ready"

\* The wait_while predicates, each preceded by a predicate that tests for
\* the wrong state.
PauseWaitCondRunning(s) == s = "Running"

PauseWaitCond(s) == s = "Paused"

\* An unpause that does not wait for the worker.
UnpauseWaitCondNever(s) == FALSE

UnpauseWaitCondPaused(s) == s = "Paused"

UnpauseWaitCond(s) == s = "Running"

SubmitWaitCondPaused(s) == s = "Paused"

SubmitWaitCond(s) == s = "Running"

\* ManagedHandle::is_paused
IsPaused(h) == state[h] = "Paused"

\* The receiver lives as long as the worker thread's closure does.
ReceiverAlive(h) == pc[h] \notin {"exited", "panicked"}

\* A channel that never reports disconnection (a sender kept alive).
ChannelNeverDisconnected(h) == FALSE

\* The receiver's iterator ends once the sender is dropped (and the channel
\* is drained).
ChannelDisconnected(h) == closed[h]

\* A join that does not wait for the thread.
ThreadFinishedAlways(h) == TRUE

\* ScopedJoinHandle::join returns once the worker thread has terminated.
ThreadFinished(h) == pc[h] \in {"exited", "panicked"}

\* The thread owns the handles: the test's thread, whose closure holds
\* `threads` (pbt) or t1 and t2 (exhaustytest), when it is the only caller.
\* With a second caller the handles are borrowed from a scope that outlives
\* both callers.
OwnsHandles(t) == t = "main" /\ pc["rogue"] = "off"

\* Unwinding out of the test's closure drops every handle still held, and
\* with it the handle's Sender.
ClosedAfterPanic(t) ==
  IF OwnsHandles(t) THEN [h \in Workers |-> TRUE] ELSE closed

\* Where a panicking thread goes: the owner of the handles unwinds out of
\* the closure of std::thread::scope, which still waits for the spawned
\* threads before the panic goes on.
PanicPc(t) == IF OwnsHandles(t) THEN "scope_end" ELSE "panicked"

\* A panic of thread t while it holds (or while lock() hands it) the guard
\* of gate g: unwinding drops the guard, which poisons and unlocks the mutex.
\* (The decision source is left to the caller.)
PanicHoldingGuard(t, g, why) ==
  /\ pc' = [pc EXCEPT ![t] = PanicPc(t)]
  /\ panic' = [panic EXCEPT ![t] = why]
  /\ poisoned' = [poisoned EXCEPT ![g] = TRUE]
  /\ mutex' = [mutex EXCEPT ![g] = None]
  /\ closed' = ClosedAfterPanic(t)
  /\ UNCHANGED <<state, cv, chan, tls, value, ops, local, dh, dret,
                 counter_model, submitted, completed, increment_count,
                 joined, todo>>

PanicWithGuard(t, g, why) ==
  /\ PanicHoldingGuard(t, g, why)
  /\ UNCHANGED script

\* A panic of thread t that holds no guard.
PanicNoGuard(t, why) ==
  /\ pc' = [pc EXCEPT ![t] = PanicPc(t)]
  /\ panic' = [panic EXCEPT ![t] = why]
  /\ closed' = ClosedAfterPanic(t)
  /\ UNCHANGED <<state, mutex, poisoned, cv, chan, tls, value, ops,
                 local, dh, dret, counter_model, submitted, completed,
                 script, increment_count, joined, todo>>

----
\* Instrumented AtomicU32: pause(); raw access; pause()

\* Where thread t goes when the pause() at position p ("pause1"/"wait1" before
\* the raw access, "pause2"/"wait2" after it) returns.
AfterPausePc(t, p) ==
  IF p \in {"pause1", "wait1"} THEN "raw"
  ELSE IF Len(ops[t]) > 1 THEN "pause1"
  ELSE IF t \in Workers THEN "complete"
  ELSE IF t \in Unmanaged THEN "idle"
  ELSE "check"

AfterPauseOps(t, p) ==
  IF p \in {"pause1", "wait1"} THEN ops[t] ELSE Tail(ops[t])

WaitPc(p) == IF p = "pause1" THEN "wait1" ELSE "wait2"

\* pause(): no gate registered -> return at once; otherwise
\* SharedContext::pause up to and including the first wait.
PauseEnter(t) ==
  /\ pc[t] \in {"pause1", "pause2"}
  /\ LET g == SharedContextGet(t) IN
     IF g = None
     THEN /\ pc' = [pc EXCEPT ![t] = AfterPausePc(t, pc[t])]
          /\ ops' = [ops EXCEPT ![t] = AfterPauseOps(t, pc[t])]
          /\ UNCHANGED <<state, mutex, poisoned, cv, chan, closed, tls, value,
                         local, panic, dh, dret, counter_model, submitted,
                         completed, script, increment_count, joined, todo>>
     ELSE /\ mutex[g] = None
          /\ IF poisoned[g] THEN PanicWithGuard(t, g, "pause_poison")
             ELSE IF ~PauseAssert(state[g])
             THEN PanicWithGuard(t, g, "pause_assert")
             ELSE IF PauseWaitCond(PauseState)
             THEN /\ state' = [state EXCEPT ![g] = PauseState]
                  /\ cv' = [NotifyAll(g) EXCEPT ![g] = @ \cup {t}]
                  /\ pc' = [pc EXCEPT ![t] = WaitPc(pc[t])]
                  /\ UNCHANGED <<mutex, poisoned, chan, closed, tls, value,
                                 ops, local, panic, dh, dret, counter_model,
                                 submitted, completed, script, increment_count,
                                 joined, todo>>
             ELSE /\ state' = [state EXCEPT ![g] = PauseState]
                  /\ cv' = NotifyAll(g)
                  /\ pc' = [pc EXCEPT ![t] = "panicked"]
                  /\ panic' = [panic EXCEPT ![t] = "pause_assert"]
                  /\ poisoned' = [poisoned EXCEPT ![g] = TRUE]
                  /\ UNCHANGED <<mutex, chan, closed, tls, value, ops, local,
                                 dh, dret, counter_model, submitted,
                                 completed, script, increment_count, joined,
                                 todo>>

\* SharedContext::pause from the wake-up on: reacquire the mutex, re-test the
\* predicate, wait again or assert Running and return.  (A spurious wake-up
\* re-tests the predicate and waits again, which leaves the state unchanged.)
PauseWake(t) ==
  /\ pc[t] \in {"wait1", "wait2"}
  /\ LET g == SharedContextGet(t) IN
     /\ g # None
     /\ t \notin cv[g]
     /\ mutex[g] = None
     /\ IF poisoned[g] THEN PanicWithGuard(t, g, "pause_poison")
        ELSE IF PauseWaitCond(state[g])
        THEN /\ cv' = [cv EXCEPT ![g] = @ \cup {t}]
             /\ UNCHANGED <<state, mutex, poisoned, chan, closed, tls, value,
                            pc, ops, local, panic, dh, dret, counter_model,
                            submitted, completed, script, increment_count,
                            joined, todo>>
        ELSE IF ~PauseAssert(state[g])
        THEN PanicWithGuard(t, g, "pause_assert")
        ELSE /\ pc' = [pc EXCEPT ![t] = AfterPausePc(t, pc[t])]
             /\ ops' = [ops EXCEPT ![t] = AfterPauseOps(t, pc[t])]
             /\ UNCHANGED <<state, mutex, poisoned, cv, chan, closed, tls,
                            value, local, panic, dh, dret, counter_model,
                            submitted, completed, script, increment_count,
                            joined, todo>>

\* The argument Counter::increment passes to store.
StoreArg(v) == v + 1

\* A raw access whose load writes the register as well.
RawValueLoadWrites(op, v, l) ==
  IF op = "store" THEN StoreArg(l) ELSE v + 1

\* The raw access between the two pauses.
RawValue(op, v, l) ==
  IF op = "load" THEN v
  ELSE IF op = "store" THEN StoreArg(l)
  ELSE v + 1

RawResult(op, v, l) == IF op = "store" THEN l ELSE v

\* An operation that returns after its raw access without pausing again.
AfterRawPcNoPause == "wait2"

\* The pause() that follows the raw access.
AfterRawPc == "pause2"

RawAccess(t) ==
  /\ pc[t] = "raw"
  /\ value' = RawValue(Head(ops[t]), value, local[t])
  /\ local' = [local EXCEPT ![t] = RawResult(Head(ops[t]), value, local[t])]
  /\ pc' = [pc EXCEPT ![t] = AfterRawPc]
  /\ UNCHANGED <<state, mutex, poisoned, cv, chan, closed, tls, ops, panic,
                 dh, dret, counter_model, submitted, completed,
                 script, increment_count, joined, todo>>

----
\* The worker thread of spawn

\* Every worker registering the same gate, as a process-wide static would.
RegisteredGateFirst(w) == HandleOrder[1]

\* The gate a worker registers: the ctx created by its own spawn call.
RegisteredGate(w) == w

\* SharedContext::set(Arc::clone(&ctx))
WorkerStart(w) ==
  /\ pc[w] = "start"
  /\ tls' = [tls EXCEPT ![w] = RegisteredGate(w)]
  /\ pc' = [pc EXCEPT ![w] = "recv"]
  /\ UNCHANGED <<state, mutex, poisoned, cv, chan, closed, value, ops, local,
                 panic, dh, dret, counter_model, submitted, completed,
                 script, increment_count, joined, todo>>

\* A receive that leaves the closure in the channel.
ChanAfterRecvKeep(q) == q

\* The channel after the receiver took its first message.
ChanAfterRecv(q) == Tail(q)

\* for f in receiver: take the next closure and call it, or leave the loop
\* when the channel is empty and the sender is gone (blocks otherwise).
WorkerRecv(w) ==
  /\ pc[w] = "recv"
  /\ IF chan[w] # <<>>
     THEN /\ chan' = [chan EXCEPT ![w] = ChanAfterRecv(@)]
          /\ ops' = [ops EXCEPT ![w] = Head(chan[w])]
          /\ pc' = [pc EXCEPT ![w] =
                      IF Head(chan[w]) = <<>> THEN "complete" ELSE "pause1"]
     ELSE /\ ChannelDisconnected(w)
          /\ pc' = [pc EXCEPT ![w] = "exited"]
          /\ UNCHANGED <<chan, ops>>
  /\ UNCHANGED <<state, mutex, poisoned, cv, closed, tls, value, local, panic,
                 dh, dret, counter_model, submitted, completed,
                 script, increment_count, joined, todo>>

\* After f(&mut state): lock, assert Running, set Ready, notify_all.
WorkerComplete(w) ==
  /\ pc[w] = "complete"
  /\ mutex[w] = None
  /\ IF poisoned[w] THEN PanicWithGuard(w, w, "complete_poison")
     ELSE IF ~CompleteAssert(state[w])
     THEN PanicWithGuard(w, w, "complete_assert")
     ELSE /\ state' = [state EXCEPT ![w] = CompleteState]
          /\ cv' = NotifyAll(w)
          /\ completed' = [completed EXCEPT ![w] = @ + 1]
          /\ pc' = [pc EXCEPT ![w] = "recv"]
          /\ UNCHANGED <<mutex, poisoned, chan, closed, tls, value, ops, local,
                         panic, dh, dret, counter_model, submitted,
                         script, increment_count, joined, todo>>

----
\* ManagedHandle

\* Where a driver goes when submit or unpause returns.
ReturnPc(d) ==
  IF dret[d] \in {"join", "exjoin"} THEN "join"
  ELSE IF dret[d] = "exloop" THEN "ex_head"
  ELSE "idle"

\* ManagedHandle::unpause up to and including the first wait_while test.
Unpause(d) ==
  /\ pc[d] = "unpause"
  /\ LET h == dh[d] IN
     /\ mutex[h] = None
     /\ IF poisoned[h] THEN PanicWithGuard(d, h, "unpause_poison")
        ELSE IF ~UnpauseAssert(state[h])
        THEN PanicWithGuard(d, h, "unpause_assert")
        ELSE /\ state' = [state EXCEPT ![h] = "Running"]
             /\ cv' = IF UnpauseWaitCond("Running")
                      THEN [NotifyAll(h) EXCEPT ![h] = @ \cup {d}]
                      ELSE NotifyAll(h)
             /\ pc' = [pc EXCEPT ![d] = IF UnpauseWaitCond("Running")
                                        THEN "unpause_wait" ELSE ReturnPc(d)]
             /\ UNCHANGED <<mutex, poisoned, chan, closed, tls, value, ops,
                            local, panic, dh, dret, counter_model, submitted,
                            completed, script, increment_count, joined, todo>>

\* ManagedHandle::submit: lock, assert Ready, set Running; the guard stays
\* held.
Submit(d) ==
  /\ pc[d] = "submit"
  /\ LET h == dh[d] IN
     /\ mutex[h] = None
     /\ IF poisoned[h] THEN PanicWithGuard(d, h, "submit_poison")
        ELSE IF ~SubmitAssert(state[h])
        THEN PanicWithGuard(d, h, "submit_assert")
        ELSE /\ state' = [state EXCEPT ![h] = "Running"]
             /\ mutex' = [mutex EXCEPT ![h] = d]
             /\ pc' = [pc EXCEPT ![d] = "submit_send"]
             /\ UNCHANGED <<poisoned, cv, chan, closed, tls, value, ops, local,
                            panic, dh, dret, counter_model, submitted,
                            completed, script, increment_count, joined, todo>>

\* ManagedHandle::submit: self.sender.send(Box::new(f)).unwrap(), with the
\* guard held; the send fails when the receiver is gone.
SubmitSend(d, f) ==
  /\ pc[d] = "submit_send"
  /\ LET h == dh[d] IN
     /\ mutex[h] = d
     /\ IF ~ReceiverAlive(h) THEN PanicWithGuard(d, h, "submit_send")
        ELSE /\ chan' = [chan EXCEPT ![h] = Append(@, f)]
             /\ submitted' = [submitted EXCEPT ![h] = @ + 1]
             /\ pc' = [pc EXCEPT ![d] = "submit_wait"]
             /\ UNCHANGED <<state, mutex, poisoned, cv, closed, tls, value,
                            ops, local, panic, dh, dret, counter_model,
                            completed, script, increment_count, joined, todo>>

\* ManagedHandle::submit, the first wait_while test: the guard is given up
\* and the driver blocks on the condvar.
SubmitWait(d) ==
  /\ pc[d] = "submit_wait"
  /\ LET h == dh[d] IN
     /\ mutex[h] = d
     /\ mutex' = [mutex EXCEPT ![h] = None]
     /\ IF SubmitWaitCond(state[h])
        THEN /\ cv' = [cv EXCEPT ![h] = @ \cup {d}]
             /\ pc' = [pc EXCEPT ![d] = "submit_blocked"]
             /\ UNCHANGED counter_model
        ELSE /\ pc' = [pc EXCEPT ![d] = ReturnPc(d)]
             /\ counter_model' = IF d = "main" THEN counter_model + 1
                                 ELSE counter_model
             /\ UNCHANGED cv
  /\ UNCHANGED <<state, poisoned, chan, closed, tls, value, ops, local, panic,
                 dh, dret, submitted, completed, script, increment_count,
                 joined, todo>>

\* The predicate the blocked driver re-tests when it wakes.
DriverWaitCond(d, s) ==
  IF pc[d] = "submit_blocked" THEN SubmitWaitCond(s) ELSE UnpauseWaitCond(s)

\* submit and unpause from the wake-up on: reacquire the mutex, re-test the
\* predicate, wait again or return to the caller (which, for a submit of the
\* test loop, then counts the increment: counter_model += 1).
DriverWake(d) ==
  /\ pc[d] \in {"submit_blocked", "unpause_wait"}
  /\ LET h == dh[d] IN
     /\ d \notin cv[h]
     /\ mutex[h] = None
     /\ IF poisoned[h] THEN PanicWithGuard(d, h, "wait_poison")
        ELSE IF DriverWaitCond(d, state[h])
        THEN /\ cv' = [cv EXCEPT ![h] = @ \cup {d}]
             /\ UNCHANGED <<state, mutex, poisoned, chan, closed, tls, value,
                            pc, ops, local, panic, dh, dret, counter_model,
                            submitted, completed, script, increment_count,
                            joined, todo>>
        ELSE /\ pc' = [pc EXCEPT ![d] = ReturnPc(d)]
             /\ counter_model' =
                  IF pc[d] = "submit_blocked" /\ d = "main"
                  THEN counter_model + 1 ELSE counter_model
             /\ UNCHANGED <<state, mutex, poisoned, cv, chan, closed, tls,
                            value, ops, local, panic, dh, dret, submitted,
                            completed, script, increment_count, joined, todo>>

\* ManagedHandle::join, one turn of `while self.is_paused()`: unpause, or
\* leave the loop and drop the sender.
JoinCheck(d) ==
  /\ pc[d] = "join"
  /\ LET h == dh[d] IN
     /\ mutex[h] = None
     /\ IF poisoned[h] THEN PanicWithGuard(d, h, "is_paused_poison")
        ELSE IF IsPaused(h)
        THEN /\ pc' = [pc EXCEPT ![d] = "unpause"]
             /\ dret' = [dret EXCEPT ![d] =
                          IF @ = "exjoin" THEN "exjoin" ELSE "join"]
             /\ UNCHANGED <<state, mutex, poisoned, cv, chan, closed, tls,
                            value, ops, local, panic, dh, counter_model,
                            submitted, completed, script, increment_count,
                            joined, todo>>
        ELSE /\ closed' = [closed EXCEPT ![h] = TRUE]
             /\ pc' = [pc EXCEPT ![d] = "join_wait"]
             /\ UNCHANGED <<state, mutex, poisoned, cv, chan, tls, value, ops,
                            local, panic, dh, dret, counter_model, submitted,
                            completed, script, increment_count, joined, todo>>

\* ManagedHandle::join, self.inner.join().unwrap(); then the next handle of
\* `for t in threads { t.join() }`; after the last one pbt goes on to
\* counter.get(), while exhaustytest returns from the scope's closure.
JoinWait(d) ==
  /\ pc[d] = "join_wait"
  /\ LET h == dh[d] IN
     /\ ThreadFinished(h)
     /\ IF pc[h] = "panicked" THEN PanicNoGuard(d, "join")
        ELSE IF HandleIndex(h) < Len(HandleOrder)
        THEN /\ joined' = joined \cup {h}
             /\ dh' = [dh EXCEPT ![d] = HandleOrder[HandleIndex(h) + 1]]
             /\ pc' = [pc EXCEPT ![d] = "join"]
             /\ UNCHANGED <<state, mutex, poisoned, cv, chan, closed, tls,
                            value, ops, local, panic, dret, counter_model,
                            submitted, completed, script, increment_count,
                            todo>>
        ELSE IF dret[d] # "exjoin"
        THEN /\ joined' = joined \cup {h}
             /\ ops' = [ops EXCEPT ![d] = CounterGet]
             /\ pc' = [pc EXCEPT ![d] = "pause1"]
             /\ UNCHANGED <<state, mutex, poisoned, cv, chan, closed, tls,
                            value, local, panic, dh, dret, counter_model,
                            submitted, completed, script, increment_count,
                            todo>>
        ELSE /\ joined' = joined \cup {h}
             /\ pc' = [pc EXCEPT ![d] = "scope_end"]
             /\ UNCHANGED <<state, mutex, poisoned, cv, chan, closed, tls,
                            value, ops, local, panic, dh, dret, counter_model,
                            submitted, completed, script, increment_count,
                            todo>>

----
\* The test driver (pbt)

\* One decision for handle h: `if t.is_paused() { t.unpause() } else
\* { t.submit(|c| c.increment()); counter_model += 1 }`.
Decide(d, h) ==
  /\ pc[d] = "idle"
  /\ mutex[h] = None
  /\ IF poisoned[h] THEN PanicHoldingGuard(d, h, "is_paused_poison")
     ELSE /\ pc' = [pc EXCEPT ![d] = IF IsPaused(h) THEN "unpause" ELSE "submit"]
          /\ dh' = [dh EXCEPT ![d] = h]
          /\ dret' = [dret EXCEPT ![d] = "loop"]
          /\ UNCHANGED <<state, mutex, poisoned, cv, chan, closed, tls, value,
                         ops, local, panic, counter_model, submitted,
                         completed, increment_count, joined, todo>>

\* The decision source is exhausted: `for t in threads { t.join() }`.
StartJoin(d) ==
  /\ pc[d] = "idle"
  /\ dh' = [dh EXCEPT ![d] = HandleOrder[1]]
  /\ pc' = [pc EXCEPT ![d] = "join"]
  /\ UNCHANGED <<state, mutex, poisoned, cv, chan, closed, tls, value, ops,
                 local, panic, dret, counter_model, submitted, completed,
                 script, increment_count, joined, todo>>

\* assert_eq!(counter_model, counter.get())
Check(d) ==
  /\ pc[d] = "check"
  /\ IF local[d] # counter_model THEN PanicNoGuard(d, "assert_eq")
     ELSE /\ pc' = [pc EXCEPT ![d] = "scope_end"]
          /\ UNCHANGED <<state, mutex, poisoned, cv, chan, closed, tls, value,
                         ops, local, panic, dh, dret, counter_model, submitted,
                         completed, script, increment_count, joined, todo>>

\* The threads spawned in the test's scope: the managed workers, and the
\* unmanaged threads a specification has started.
SpawnedInScope == Workers \cup {u \in Unmanaged : pc[u] # "off"}

\* std::thread::scope returns once every thread spawned in it has finished,
\* and panics if its closure or one of the threads did.
ScopeEnd(d) ==
  /\ pc[d] = "scope_end"
  /\ \A t \in SpawnedInScope : ThreadFinished(t)
  /\ pc' = [pc EXCEPT ![d] =
              IF panic[d] # None
                 \/ (\E t \in SpawnedInScope : pc[t] = "panicked")
              THEN "panicked" ELSE "done"]
  /\ UNCHANGED <<state, mutex, poisoned, cv, chan, closed, tls, value, ops,
                 local, panic, dh, dret, counter_model, submitted, completed,
                 script, increment_count, joined, todo>>

\* A decision drawn freely, while increments remain to be issued.
FreeDecide ==
  \E h \in Workers :
    /\ IsPaused(h) \/ counter_model < MaxIncrements
    /\ Decide("main", h)
    /\ UNCHANGED script

\* The free-running driver may stop deciding at any decision point.
FreeJoin == StartJoin("main")

\* A decision taken from a scripted decision source; the driver joins when
\* the script is used up.
ScriptedDecide ==
  /\ script # <<>>
  /\ Decide("main", Head(script))
  /\ script' = Tail(script)

ScriptedJoin ==
  /\ script = <<>>
  /\ StartJoin("main")

\* A caller that does not consult is_paused: any call on any handle.
MisuseCall(d, h, call) ==
  /\ pc[d] = "idle"
  /\ call = "submit" =>
       submitted["w1"] + submitted["w2"] < MaxMisuseSubmits
  /\ pc' = [pc EXCEPT ![d] = call]
  /\ dh' = [dh EXCEPT ![d] = h]
  /\ dret' = [dret EXCEPT ![d] = "loop"]
  /\ UNCHANGED <<state, mutex, poisoned, cv, chan, closed, tls, value, ops,
                 local, panic, counter_model, submitted, completed,
                 script, increment_count, joined, todo>>

----
\* Specifications

\* No unmanaged thread has anything to run.
NoUnmanaged == todo = [u \in Unmanaged |-> <<>>]

InitCommon ==
  /\ state = [g \in Workers |-> "Ready"]
  /\ mutex = [g \in Workers |-> None]
  /\ poisoned = [g \in Workers |-> FALSE]
  /\ cv = [g \in Workers |-> {}]
  /\ chan = [h \in Workers |-> <<>>]
  /\ closed = [h \in Workers |-> FALSE]
  /\ tls = [t \in Threads |-> None]
  /\ value = 0
  /\ ops = [t \in Threads |-> <<>>]
  /\ local = [t \in Threads |-> 0]
  /\ panic = [t \in Threads |-> None]
  /\ dh = [d \in Drivers |-> HandleOrder[1]]
  /\ dret = [d \in Drivers |-> "loop"]
  /\ counter_model = 0
  /\ joined = {}
  /\ submitted = [h \in Workers |-> 0]
  /\ completed = [h \in Workers |-> 0]

\* pbt has no increment_count.
InitPbt == increment_count = 0

\* The state after both spawn calls: two workers started, the driver about
\* to make its first decision.
Init ==
  /\ InitCommon
  /\ NoUnmanaged
  /\ InitPbt
  /\ pc = [t \in Threads |->
             IF t \in Workers THEN "start"
             ELSE IF t = "main" THEN "idle" ELSE "off"]
  /\ script = <<>>

WorkerNext ==
  \E w \in Workers :
    \/ WorkerStart(w)
    \/ WorkerRecv(w)
    \/ WorkerComplete(w)

OpNext ==
  \E t \in Threads :
    \/ PauseEnter(t)
    \/ PauseWake(t)
    \/ RawAccess(t)

CallNext ==
  \E d \in Drivers :
    \/ Unpause(d)
    \/ Submit(d)
    \/ SubmitSend(d, Increment)
    \/ SubmitWait(d)
    \/ DriverWake(d)

JoinNext ==
  \/ JoinCheck("main")
  \/ JoinWait("main")
  \/ Check("main")
  \/ ScopeEnd("main")

Next ==
  \/ WorkerNext
  \/ OpNext
  \/ CallNext
  \/ FreeDecide
  \/ FreeJoin
  \/ JoinNext

Spec == Init /\ [][Next]_vars

TypeOK ==
  /\ state \in [Workers -> {"Ready", "Running", "Paused"}]
  /\ mutex \in [Workers -> Drivers \cup {None}]
  /\ poisoned \in [Workers -> BOOLEAN]
  /\ cv \in [Workers -> SUBSET Threads]
  /\ closed \in [Workers -> BOOLEAN]
  /\ tls \in [Threads -> Workers \cup {None}]
  /\ value \in Nat
  /\ counter_model \in Nat
  /\ dh \in [Drivers -> Workers]
  /\ dret \in [Drivers -> {"loop", "join", "exloop", "exjoin"}]
  /\ increment_count \in Nat
  /\ joined \in SUBSET Workers
  /\ DOMAIN todo = Unmanaged


\* Fair scheduling: every thread that can take a step eventually does.  The
\* driver's decisions (FreeDecide, FreeJoin) are not forced.
WorkerStep(w) ==
  \/ WorkerStart(w)
  \/ WorkerRecv(w)
  \/ WorkerComplete(w)
  \/ PauseEnter(w)
  \/ PauseWake(w)
  \/ RawAccess(w)

DriverStep(d) ==
  \/ Unpause(d)
  \/ Submit(d)
  \/ SubmitSend(d, Increment)
  \/ SubmitWait(d)
  \/ DriverWake(d)
  \/ JoinCheck(d)
  \/ JoinWait(d)
  \/ PauseEnter(d)
  \/ RawAccess(d)
  \/ Check(d)
  \/ ScopeEnd(d)

FairSpec ==
  /\ Spec
  /\ \A w \in Workers : WF_vars(WorkerStep(w))
  /\ WF_vars(DriverStep("main"))

\* A scripted decision source: the handle to act on at each decision.
Rep(x, n) == [i \in 1..n |-> x]

\* Worker 1 loads 0 and is held before its store; worker 2 runs three whole
\* increments; worker 1 then stores 1 and runs its two other increments.
LostUpdateSchedule ==
  Rep("w1", 2) \o Rep("w2", 15) \o Rep("w1", 13)

InitScript ==
  /\ InitCommon
  /\ NoUnmanaged
  /\ InitPbt
  /\ pc = [t \in Threads |->
             IF t \in Workers THEN "start"
             ELSE IF t = "main" THEN "idle" ELSE "off"]
  /\ script = LostUpdateSchedule

NextScript ==
  \/ WorkerNext
  \/ OpNext
  \/ CallNext
  \/ ScriptedDecide
  \/ ScriptedJoin
  \/ JoinNext

SpecScript == InitScript /\ [][NextScript]_vars

\* Two callers that ignore the contract.
InitMisuse ==
  /\ InitCommon
  /\ NoUnmanaged
  /\ InitPbt
  /\ pc = [t \in Threads |->
             IF t \in Workers THEN "start"
             ELSE IF t \in Drivers THEN "idle" ELSE "off"]
  /\ script = <<>>

MisuseNext ==
  \E d \in Drivers, h \in Workers, call \in {"submit", "unpause"} :
    MisuseCall(d, h, call)

NextMisuse ==
  \/ WorkerNext
  \/ OpNext
  \/ CallNext
  \/ MisuseNext

SpecMisuse == InitMisuse /\ [][NextMisuse]_vars

----
\* Properties

\* The driver is between two calls on the handle API.
BetweenCalls(d) == pc[d] \in {"idle", "submit", "unpause", "join"}

\* The worker is blocked on the condvar inside a suspension point.
AtSuspension(w) == pc[w] \in {"wait1", "wait2"} /\ w \in cv[w]

\* The worker has finished every closure sent to it and is not in one.
WorkerIdle(w) ==
  /\ pc[w] \in {"start", "recv", "exited"}
  /\ chan[w] = <<>>
  /\ completed[w] = submitted[w]

\* A driver is inside submit or unpause on handle h.
DriverInCall(h) ==
  \E d \in Drivers :
    /\ dh[d] = h
    /\ pc[d] \in {"submit_send", "submit_wait", "submit_blocked",
                  "unpause_wait"}

\* C1. Synchronous return: whenever the driver is back from submit or
\* unpause (and until its next call takes effect) no gate is Running; a gate
\* is Paused exactly when its worker is blocked at a suspension point and
\* Ready exactly when its worker has completed every closure sent to it.
SynchronousReturn ==
  BetweenCalls("main") =>
    \A h \in Workers :
      /\ state[h] \in {"Paused", "Ready"}
      /\ IsPaused(h) <=> AtSuspension(h)
      /\ ~IsPaused(h) <=> WorkerIdle(h)

SynchronousReturnWitness ==
  /\ pc["main"] = "idle"
  /\ state["w1"] = "Paused" /\ pc["w1"] = "wait2"
  /\ state["w2"] = "Ready" /\ completed["w2"] = 1

\* C2. Mutual exclusion on one handle: a worker is in closure code (between
\* suspension points, at a raw access, or about to report completion) only
\* while its gate is Running, and while a gate is Running a driver is blocked
\* inside submit or unpause on that handle and no driver is between calls.
MutualExclusion ==
  \A h \in Workers :
    /\ pc[h] \in {"pause1", "raw", "pause2", "complete"} => state[h] = "Running"
    /\ state[h] = "Running" => DriverInCall(h) /\ ~BetweenCalls("main")

MutualExclusionWitness ==
  /\ pc["w1"] = "raw" /\ Head(ops["w1"]) = "store"
  /\ state["w1"] = "Running"
  /\ pc["main"] = "unpause_wait" /\ dh["main"] = "w1"
  /\ state["w2"] = "Paused"

\* C3. Conservation: when every submitted increment has run to completion
\* (the driver is at a decision point with every gate Ready, or it has
\* joined both handles and read the counter) the counter equals
\* counter_model.
Conservation ==
  /\ pc["main"] = "idle" /\ (\A h \in Workers : state[h] = "Ready")
       => value = counter_model
  /\ pc["main"] = "check" => local["main"] = counter_model

\* C4. Lost update is reproducible: the schedule LostUpdateSchedule issues 3
\* increments per worker, all 6 run to completion, and the counter ends
\* strictly below 6.
LostUpdateReproduced ==
  (script = <<>> /\ pc["main"] \in {"idle", "check"}) =>
    /\ counter_model = 6
    /\ \A h \in Workers : submitted[h] = 3 /\ completed[h] = 3
    /\ \A h \in Workers : state[h] = "Ready"
    /\ value < 6
    /\ pc["main"] = "check" => local["main"] < 6

LostUpdateWitness ==
  /\ script = <<>>
  /\ pc["main"] = "check"
  /\ completed["w1"] = 3 /\ completed["w2"] = 3
  /\ local["main"] = 3

\* join(h) has returned.
Joined(h) == h \in joined

\* The driver is inside join(h).
InJoin(h) ==
  /\ dh["main"] = h
  /\ \/ pc["main"] \in {"join", "join_wait"}
     \/ /\ pc["main"] \in {"unpause", "unpause_wait"}
        /\ dret["main"] \in {"join", "exjoin"}

\* C5. Drain-on-join liveness: under fair scheduling a join that has been
\* called, with the worker Paused at any suspension point or Ready,
\* eventually returns, with the channel closed, the worker out of its
\* receive loop and the gate Ready.
JoinReturns ==
  \A h \in Workers :
    InJoin(h) ~>
      (Joined(h) /\ closed[h] /\ pc[h] = "exited" /\ state[h] = "Ready")

JoinReturnsWitness ==
  /\ Joined("w1") /\ Joined("w2")
  /\ dret["main"] = "join"
  /\ pc["main"] = "pause1"

\* Every join of `for t in threads { t.join() }` has returned.
AllJoined == joined = Workers

\* C6. Drain postcondition: after the last join has returned every closure
\* ever sent has run to completion, every gate is Ready and no worker is
\* left at a suspension point (every worker thread has exited).
DrainPostcondition ==
  AllJoined =>
    \A h \in Workers :
      /\ completed[h] = submitted[h]
      /\ chan[h] = <<>>
      /\ state[h] = "Ready"
      /\ pc[h] = "exited"

DrainWitness ==
  /\ pc["main"] = "check"
  /\ dret["main"] = "join"
  /\ submitted["w1"] >= 1 /\ submitted["w2"] >= 1
  /\ completed["w1"] + completed["w2"] = counter_model

\* C7. Worker-side assertions never fire under a contract-respecting driver:
\* no worker panics; the gate is Running whenever a worker is about to enter
\* a suspension point or to mark its closure complete, and whenever a worker
\* woken from a suspension point is about to re-test the gate.
WorkerAssertionsHold ==
  \A w \in Workers :
    /\ pc[w] # "panicked" /\ panic[w] = None
    /\ pc[w] \in {"pause1", "pause2", "complete"} => state[w] = "Running"
    /\ (pc[w] \in {"wait1", "wait2"} /\ w \notin cv[w]) => state[w] = "Running"

WorkerAssertionsWitness ==
  /\ pc["w1"] = "wait2" /\ "w1" \notin cv["w1"]
  /\ pc["w2"] = "wait1"
  /\ completed["w1"] >= 1

\* C8. submit precondition: a submit that finds the gate Paused or Running
\* panics and does not return normally; it sends nothing and leaves the gate
\* state alone.  The panic is the state assertion unless the gate's mutex
\* was already poisoned, in which case lock().unwrap() panics first.
SubmitPrecondition ==
  [][\A d \in Drivers :
       (/\ pc[d] = "submit"
        /\ pc'[d] # "submit"
        /\ state[dh[d]] \in {"Paused", "Running"})
       => /\ pc'[d] = "panicked"
          /\ panic'[d] = IF poisoned[dh[d]] THEN "submit_poison"
                         ELSE "submit_assert"
          /\ chan' = chan
          /\ submitted' = submitted
          /\ state' = state]_vars

SubmitPreconditionWitness ==
  \E d \in Drivers :
    /\ panic[d] = "submit_assert"
    /\ state[dh[d]] = "Running"
    /\ chan[dh[d]] = <<>>

\* C9. unpause precondition: an unpause that finds the gate Ready or Running
\* panics; it leaves the gate state alone and wakes nobody.  The panic is
\* the state assertion unless the gate's mutex was already poisoned.
UnpausePrecondition ==
  [][\A d \in Drivers :
       (/\ pc[d] = "unpause"
        /\ pc'[d] # "unpause"
        /\ state[dh[d]] \in {"Ready", "Running"})
       => /\ pc'[d] = "panicked"
          /\ panic'[d] = IF poisoned[dh[d]] THEN "unpause_poison"
                         ELSE "unpause_assert"
          /\ state' = state
          /\ cv' = cv
          /\ \A w \in Workers : pc'[w] = pc[w]]_vars

UnpausePreconditionWitness ==
  \E d \in Drivers :
    /\ panic[d] = "unpause_assert"
    /\ state[dh[d]] = "Running"
    /\ pc[dh[d]] \in {"wait1", "wait2"}

\* Managed workers under the free driver, with an unmanaged thread that
\* calls the same Counter directly.

\* The Counter calls an unmanaged thread may make: threaded_test's
\* increment, as written and as the commented-out fetch_add.
PlainCalls == {Increment, IncrementFetchAdd}

\* counter.increment() (or get) called directly by an unmanaged thread.
PlainCall(u) ==
  /\ pc[u] = "idle"
  /\ todo[u] # <<>>
  /\ ops' = [ops EXCEPT ![u] = Head(todo[u])]
  /\ todo' = [todo EXCEPT ![u] = Tail(@)]
  /\ pc' = [pc EXCEPT ![u] = "pause1"]
  /\ UNCHANGED <<state, mutex, poisoned, cv, chan, closed, tls, value, local,
                 panic, dh, dret, counter_model, submitted, completed,
                 script, increment_count, joined>>

\* The unmanaged thread's closure returns.
PlainExit(u) ==
  /\ pc[u] = "idle"
  /\ todo[u] = <<>>
  /\ pc' = [pc EXCEPT ![u] = "exited"]
  /\ UNCHANGED <<state, mutex, poisoned, cv, chan, closed, tls, value, ops,
                 local, panic, dh, dret, counter_model, submitted, completed,
                 script, increment_count, joined, todo>>

PlainNext ==
  \E u \in Unmanaged :
    \/ PlainCall(u)
    \/ PlainExit(u)

\* A decision of the free driver, with its own cap on the increments.
PassDecide ==
  \E h \in Workers :
    /\ IsPaused(h) \/ counter_model < MaxPassSubmits
    /\ Decide("main", h)
    /\ UNCHANGED script

InitPassThrough ==
  /\ InitCommon
  /\ InitPbt
  /\ todo \in [Unmanaged -> [1..MaxPlainCalls -> PlainCalls]]
  /\ pc = [t \in Threads |->
             IF t \in Workers THEN "start"
             ELSE IF t = "rogue" THEN "off" ELSE "idle"]
  /\ script = <<>>

NextPassThrough ==
  \/ WorkerNext
  \/ OpNext
  \/ CallNext
  \/ PassDecide
  \/ FreeJoin
  \/ JoinNext
  \/ PlainNext

SpecPassThrough == InitPassThrough /\ [][NextPassThrough]_vars

\* A step of the instrumented operation thread t is in.
OpStep(t) == PauseEnter(t) \/ PauseWake(t) \/ RawAccess(t)

\* Where a thread without a gate is after one step of its operation.
PassThroughPc(t) ==
  IF pc[t] = "pause1" THEN "raw"
  ELSE IF pc[t] = "raw" THEN "pause2"
  ELSE IF Len(ops[t]) > 1 THEN "pause1"
  ELSE IF t \in Unmanaged THEN "idle"
  ELSE "check"

\* C10. Pass-through without a gate: a thread with no registered gate (the
\* driver in counter.get(), or an unmanaged thread in increment or in the
\* fetch_add increment) never waits inside an instrumented load,
\* store or fetch_add and can always take its next step, whatever the
\* managed workers' gates are; each of its steps goes straight on to the
\* next position (pause, raw access, pause); the raw access is the
\* operation's own (load: reads the register; store: writes its argument;
\* fetch_add: reads and adds one); and no gate's state, mutex, poison flag
\* or condvar changes and no worker moves.
PassThrough ==
  /\ [](\A t \in Threads :
          tls[t] = None =>
            /\ pc[t] \notin {"wait1", "wait2"}
            /\ pc[t] \in {"pause1", "raw", "pause2"} => ENABLED OpStep(t))
  /\ [][\A t \in Threads :
          (/\ tls[t] = None
           /\ pc[t] \in {"pause1", "raw", "pause2"}
           /\ pc'[t] # pc[t])
          => /\ pc'[t] = PassThroughPc(t)
             /\ (pc[t] = "raw" /\ Head(ops[t]) = "load") =>
                  local'[t] = value /\ value' = value
             /\ (pc[t] = "raw" /\ Head(ops[t]) = "store") =>
                  value' = local[t] + 1 /\ local'[t] = local[t]
             /\ (pc[t] = "raw" /\ Head(ops[t]) = "fetch_add") =>
                  local'[t] = value /\ value' = value + 1
             /\ pc[t] # "raw" => value' = value /\ local' = local
             /\ state' = state
             /\ mutex' = mutex
             /\ poisoned' = poisoned
             /\ cv' = cv
             /\ \A w \in Workers : pc'[w] = pc[w]]_vars

\* The unmanaged thread has passed the raw access of a fetch_add, its
\* second call, which read a register already incremented, while worker 1
\* is suspended and its gate Paused.
PassThroughWitness ==
  /\ tls["plain"] = None
  /\ pc["plain"] = "pause2"
  /\ ops["plain"] = <<"fetch_add">>
  /\ todo["plain"] = <<>>
  /\ local["plain"] >= 1
  /\ value = local["plain"] + 1
  /\ state["w1"] = "Paused" /\ AtSuspension("w1")

----
\* The test driver (exhaustytest)

\* let increment_count = g.gen(5)
IncrementCountMax == 5

\* counter_model < increment_count
CanSubmit == counter_model < increment_count

\* A loop condition that forgets the paused workers.
ExLoopCondNoPaused == CanSubmit

\* 'outer: while t1.is_paused() || t2.is_paused()
\*                || counter_model < increment_count
ExLoopCond == IsPaused(HandleOrder[1]) \/ IsPaused(HandleOrder[2]) \/ CanSubmit

\* The loop test; when it fails the loop is left for
\* assert_eq!(counter_model, counter.get()).
ExLoopHead(d) ==
  /\ pc[d] = "ex_head"
  /\ \A h \in Workers : mutex[h] = None
  /\ IF poisoned[HandleOrder[1]]
     THEN PanicWithGuard(d, HandleOrder[1], "is_paused_poison")
     ELSE IF ~IsPaused(HandleOrder[1]) /\ poisoned[HandleOrder[2]]
     THEN PanicWithGuard(d, HandleOrder[2], "is_paused_poison")
     ELSE IF ExLoopCond
     THEN /\ pc' = [pc EXCEPT ![d] = "ex_for"]
          /\ dh' = [dh EXCEPT ![d] = HandleOrder[1]]
          /\ UNCHANGED <<state, mutex, poisoned, cv, chan, closed, tls, value,
                         ops, local, panic, dret, counter_model, submitted,
                         completed, script, increment_count, joined, todo>>
     ELSE /\ pc' = [pc EXCEPT ![d] = "pause1"]
          /\ ops' = [ops EXCEPT ![d] = CounterGet]
          /\ UNCHANGED <<state, mutex, poisoned, cv, chan, closed, tls, value,
                         local, panic, dh, dret, counter_model, submitted,
                         completed, script, increment_count, joined, todo>>

\* The body of `for t in [&t1, &t2]` for the handle dh[d], with g.flip() = b:
\* unpause or submit and `continue 'outer`, or go on to the next handle;
\* after the last handle, `return for t in [t1, t2] { t.join() }`.
ExFlip(d, b) ==
  /\ pc[d] = "ex_for"
  /\ LET h == dh[d] IN
     /\ mutex[h] = None
     /\ IF b /\ poisoned[h] THEN PanicWithGuard(d, h, "is_paused_poison")
        ELSE IF b /\ IsPaused(h)
        THEN /\ pc' = [pc EXCEPT ![d] = "unpause"]
             /\ dret' = [dret EXCEPT ![d] = "exloop"]
             /\ UNCHANGED dh
        ELSE IF b /\ CanSubmit
        THEN /\ pc' = [pc EXCEPT ![d] = "submit"]
             /\ dret' = [dret EXCEPT ![d] = "exloop"]
             /\ UNCHANGED dh
        ELSE IF HandleIndex(h) < Len(HandleOrder)
        THEN /\ dh' = [dh EXCEPT ![d] = HandleOrder[HandleIndex(h) + 1]]
             /\ UNCHANGED <<pc, dret>>
        ELSE /\ pc' = [pc EXCEPT ![d] = "join"]
             /\ dh' = [dh EXCEPT ![d] = HandleOrder[1]]
             /\ dret' = [dret EXCEPT ![d] = "exjoin"]
     /\ IF b /\ poisoned[h] THEN TRUE
        ELSE UNCHANGED <<state, mutex, poisoned, cv, chan, closed, tls, value,
                         ops, local, panic, counter_model, submitted,
                         completed, script, increment_count, joined, todo>>

\* assert_eq!(counter_model, counter.get()) at the end of the scope's
\* closure; t1 and t2 are dropped there, and so are their senders, whether
\* the assertion holds or not.
ExCheck(d) ==
  /\ pc[d] = "check"
  /\ closed' = [h \in Workers |-> TRUE]
  /\ panic' = [panic EXCEPT ![d] =
                 IF local[d] # counter_model THEN "assert_eq" ELSE @]
  /\ pc' = [pc EXCEPT ![d] = "scope_end"]
  /\ UNCHANGED <<state, mutex, poisoned, cv, chan, tls, value, ops, local, dh,
                 dret, counter_model, submitted, completed, script,
                 increment_count, joined, todo>>

ExNext ==
  \/ ExLoopHead("main")
  \/ \E b \in BOOLEAN : ExFlip("main", b)
  \/ ExCheck("main")
  \/ ScopeEnd("main")

ExJoinNext ==
  \/ JoinCheck("main")
  \/ JoinWait("main")

InitExhausty ==
  /\ InitCommon
  /\ NoUnmanaged
  /\ increment_count \in 0..IncrementCountMax
  /\ pc = [t \in Threads |->
             IF t \in Workers THEN "start"
             ELSE IF t = "main" THEN "ex_head" ELSE "off"]
  /\ script = <<>>

NextExhausty ==
  \/ WorkerNext
  \/ OpNext
  \/ CallNext
  \/ ExNext
  \/ ExJoinNext

SpecExhausty == InitExhausty /\ [][NextExhausty]_vars

\* Every thread that can take a step eventually does; which way a flip
\* falls is left open.
FairSpecExhausty ==
  /\ SpecExhausty
  /\ \A w \in Workers : WF_vars(WorkerStep(w))
  /\ WF_vars(DriverStep("main") \/ ExNext)

\* The run of one explored interleaving is over.
ExEnded == pc["main"] \in {"done", "panicked"}

\* C11. Each explored run terminates: under fair scheduling, whatever the
\* flips, the exhaustytest run ends; it never issues more than
\* increment_count increments, and it leaves its loop either by the loop test
\* (no worker Paused, all increment_count increments issued) or by joining
\* both workers.
ExhaustyTerminates ==
  /\ <>[]ExEnded
  /\ [](counter_model <= increment_count)
  /\ [][(pc["main"] # "scope_end" /\ pc'["main"] = "scope_end") =>
          \/ /\ pc["main"] = "check"
             /\ \A h \in Workers : state[h] = "Ready" /\ WorkerIdle(h)
             /\ counter_model = increment_count
          \/ /\ pc["main"] = "join_wait"
             /\ \A h \in Workers : closed[h] /\ pc[h] = "exited"]_vars

ExhaustyTerminatesWitness ==
  /\ pc["main"] = "done"
  /\ increment_count = IncrementCountMax
  /\ counter_model < increment_count
  /\ submitted["w1"] >= 1 /\ submitted["w2"] >= 1
  /\ dret["main"] = "exjoin"
  /\ value < counter_model

----
\* C12: the gate starts in Ready, and its state changes only by the four
\* steps Ready -> Running (driver's submit), Running -> Paused (worker
\* entering a suspension point), Paused -> Running (driver's unpause) and
\* Running -> Ready (worker completing a closure); a worker leaves its wait
\* in a suspension point only after an unpause made the gate Running.
GateStepAllowed(g) ==
  \/ /\ state[g] = "Ready" /\ state'[g] = "Running"
     /\ \E d \in Drivers :
          pc[d] = "submit" /\ dh[d] = g /\ pc'[d] = "submit_send"
  \/ /\ state[g] = "Running" /\ state'[g] = "Paused"
     /\ pc[g] \in {"pause1", "pause2"} /\ pc'[g] = WaitPc(pc[g])
  \/ /\ state[g] = "Paused" /\ state'[g] = "Running"
     /\ \E d \in Drivers :
          pc[d] = "unpause" /\ dh[d] = g /\ pc'[d] = "unpause_wait"
  \/ /\ state[g] = "Running" /\ state'[g] = "Ready"
     /\ pc[g] = "complete" /\ pc'[g] = "recv"

GateTransitionDiscipline ==
  /\ \A g \in Workers : state[g] = "Ready"
  /\ [][\A g \in Workers :
          /\ state'[g] # state[g] => GateStepAllowed(g)
          /\ (pc[g] \in {"wait1", "wait2"} /\ pc'[g] # pc[g])
               => state[g] = "Running" /\ state'[g] = "Running"]_vars

\* All four transitions have happened on w1 while w2 sits in a suspension
\* point.
GateTransitionDisciplineWitness ==
  /\ completed["w1"] >= 1
  /\ state["w1"] = "Ready"
  /\ state["w2"] = "Paused"
  /\ pc["w2"] = "wait2"

----
\* A driver that gives the first handle load-then-store increments and the
\* second handle single fetch_add increments, and always acts on the first
\* handle five times, then on the second three times.

StepClosure(h) ==
  IF h = HandleOrder[1] THEN Increment ELSE IncrementFetchAdd

StepRound == Rep("w1", 5) \o Rep("w2", 3)

StepSchedule == StepRound \o StepRound \o StepRound

InitSteps ==
  /\ InitCommon
  /\ NoUnmanaged
  /\ InitPbt
  /\ pc = [t \in Threads |->
             IF t \in Workers THEN "start"
             ELSE IF t = "main" THEN "idle" ELSE "off"]
  /\ script = StepSchedule

CallNextSteps ==
  \E d \in Drivers :
    \/ Unpause(d)
    \/ Submit(d)
    \/ SubmitSend(d, StepClosure(dh[d]))
    \/ SubmitWait(d)
    \/ DriverWake(d)

NextSteps ==
  \/ WorkerNext
  \/ OpNext
  \/ CallNextSteps
  \/ ScriptedDecide
  \/ ScriptedJoin
  \/ JoinNext

SpecSteps == InitSteps /\ [][NextSteps]_vars

\* The number of calls (submit or unpause) the scripted driver has made.
CallsMade == Len(StepSchedule) - Len(script)

\* C13: every instrumented operation suspends once before and once after
\* its raw access.  After the submit of an increment (call 1 of a round) the
\* handle is Paused before the load; it is still Paused after each of the
\* next three unpause calls (after the load, before the store, after the
\* store, where the value has changed) and Ready after the fourth.  After
\* the submit of a fetch_add (call 6) the handle is Paused before the
\* access, Paused after the first unpause (value changed) and Ready after
\* the second.
TwoSuspensionPoints ==
  pc["main"] = "idle" =>
    LET r == CallsMade % 8
        n == CallsMade \div 8
    IN  /\ r = 0 => /\ state["w1"] = "Ready" /\ state["w2"] = "Ready"
                    /\ value = 2 * n
        /\ r \in 1..4 =>
             /\ state["w1"] = "Paused"
             /\ pc["w1"] = (IF r \in {1, 3} THEN "wait1" ELSE "wait2")
             /\ ops["w1"] = (IF r \in {1, 2} THEN <<"load", "store">>
                             ELSE <<"store">>)
             /\ value = (IF r = 4 THEN 2 * n + 1 ELSE 2 * n)
        /\ r = 5 => state["w1"] = "Ready" /\ value = 2 * n + 1
        /\ r \in 6..7 =>
             /\ state["w1"] = "Ready"
             /\ state["w2"] = "Paused"
             /\ pc["w2"] = (IF r = 6 THEN "wait1" ELSE "wait2")
             /\ ops["w2"] = <<"fetch_add">>
             /\ value = (IF r = 7 THEN 2 * n + 2 ELSE 2 * n + 1)

\* Second round: the increment has taken its four unpauses and the
\* fetch_add sits in its second suspension point.
TwoSuspensionPointsWitness ==
  /\ pc["main"] = "idle"
  /\ CallsMade = 15
  /\ completed["w1"] = 2
  /\ state["w2"] = "Paused"

----
\* C14: a worker makes a raw access (read or write) only while its gate is
\* Running, and takes no step at all while its gate is Paused; the value
\* changes only in the raw store of a worker whose gate is Running, inside
\* the driver's unpause of that worker (so not inside submit, and not
\* between calls).
ValueChangesOnlyWhileRunning ==
  [][/\ \A w \in Workers :
          /\ (pc[w] = "raw" /\ pc'[w] # "raw") => state[w] = "Running"
          /\ state[w] = "Paused" =>
               pc'[w] = pc[w] /\ local'[w] = local[w] /\ ops'[w] = ops[w]
     /\ value' # value =>
          \E w \in Workers :
            /\ pc[w] = "raw" /\ pc'[w] = AfterRawPc
            /\ Head(ops[w]) = "store"
            /\ state[w] = "Running"
            /\ pc["main"] = "unpause_wait" /\ dh["main"] = w
            /\ state'[w] = "Running"]_vars

\* Worker 1 has just stored during an unpause while worker 2 is suspended.
ValueChangesOnlyWhileRunningWitness ==
  /\ value = 1
  /\ pc["w1"] = "pause2" /\ ops["w1"] = <<"store">>
  /\ state["w1"] = "Running"
  /\ pc["main"] = "unpause_wait" /\ dh["main"] = "w1"
  /\ state["w2"] = "Paused"

----
\* The worker is inside a closure it received.
Executing(w) ==
  pc[w] \in {"pause1", "wait1", "raw", "pause2", "wait2", "complete"}

\* C15: every closure submitted to a handle is, at any time, either still in
\* the channel, or being executed by the handle's worker, or completed, and
\* never two of these; at most one closure of a handle is submitted and not
\* completed, so a closure starts only after every earlier one of the same
\* handle has completed, and the worker starts the closure that was sent.
ClosuresSequential ==
  /\ [](\A h \in Workers :
          /\ submitted[h] - completed[h] \in {0, 1}
          /\ Len(chan[h]) + (IF Executing(h) THEN 1 ELSE 0)
               = submitted[h] - completed[h])
  /\ [][\A h \in Workers :
          /\ (~Executing(h) /\ Executing(h)') =>
               /\ completed[h] = submitted[h] - 1
               /\ chan[h] # <<>> /\ ops'[h] = Head(chan[h])
               /\ chan'[h] = <<>>
          /\ (Executing(h) /\ ~Executing(h)') =>
               /\ completed'[h] = completed[h] + 1
               /\ ops[h] = <<>> \/ pc'[h] = "panicked"]_vars

\* Worker 1 runs its second closure after completing its first.
ClosuresSequentialWitness ==
  /\ completed["w1"] = 1
  /\ submitted["w1"] = 2
  /\ pc["w1"] = "wait1"
  /\ ops["w1"] = <<"load", "store">>
  /\ chan["w1"] = <<>>

----
\* The driver is blocked on the condvar of h inside submit or unpause, not
\* notified.
DriverBlocked(h) ==
  \E d \in Drivers :
    /\ dh[d] = h
    /\ pc[d] \in {"submit_blocked", "unpause_wait"}
    /\ d \in cv[h]

\* The worker is blocked in receive on an empty channel whose sender lives.
BlockedInReceive(h) == pc[h] = "recv" /\ chan[h] = <<>> /\ ~closed[h]

\* The worker is blocked: in receive on an empty channel whose sender
\* lives, or on the condvar inside a suspension point, not notified.
WorkerBlocked(h) ==
  \/ BlockedInReceive(h)
  \/ AtSuspension(h)

\* The driver's current call on h is over.
CallReturned(h) == pc["main"] \in {"idle", "join"}

\* C16: no lost wake-up.  A thread blocked on a gate's condvar and not
\* notified still has its wait predicate true (a driver: Running, a worker:
\* Paused), and the driver and the worker of a handle are never both
\* blocked; under fair scheduling a submit called with the gate Ready and
\* an unpause called with the gate Paused return.
NoLostWakeUp ==
  /\ [](\A h \in Workers :
          /\ \A d \in Drivers : d \in cv[h] => state[h] = "Running"
          /\ h \in cv[h] => state[h] = "Paused"
          /\ ~(DriverBlocked(h) /\ WorkerBlocked(h)))
  /\ \A h \in Workers :
       /\ (pc["main"] = "submit" /\ dh["main"] = h /\ state[h] = "Ready")
            ~> CallReturned(h)
       /\ (pc["main"] = "unpause" /\ dh["main"] = h /\ state[h] = "Paused")
            ~> CallReturned(h)

\* The worker's pause has woken the driver blocked in unpause, which is
\* about to return, and the worker waits for the next unpause.
NoLostWakeUpWitness ==
  /\ pc["main"] = "unpause_wait" /\ dh["main"] = "w1"
  /\ "main" \notin cv["w1"]
  /\ state["w1"] = "Paused"
  /\ AtSuspension("w1")
  /\ pc["w1"] = "wait2"

----
\* C17: each worker has only its own gate in its thread-local slot; a step
\* that changes the gate of handle b is a step of worker b or a step of the
\* driver inside a call on handle b, so neither another worker's suspension
\* point nor a call on another handle changes it; and worker b leaves a
\* suspension point only while the driver is inside unpause on handle b.
GateIsolation ==
  /\ [](\A w \in Workers : tls[w] \in {None, w})
  /\ [][\A b \in Workers :
          /\ state'[b] # state[b] =>
               /\ \A a \in Workers \ {b} : pc'[a] = pc[a]
               /\ \/ pc'[b] # pc[b]
                  \/ dh["main"] = b /\ pc'["main"] # pc["main"]
                       /\ pc["main"] \in {"submit", "unpause"}
          /\ (pc[b] \in {"wait1", "wait2"} /\ pc'[b] # pc[b]) =>
               /\ pc["main"] = "unpause_wait" /\ dh["main"] = b
               /\ \A a \in Workers \ {b} : state'[a] = state[a]]_vars

\* Worker 2 runs between two suspension points, inside the driver's unpause
\* of handle 2, while worker 1 stays suspended.
GateIsolationWitness ==
  /\ tls["w1"] = "w1" /\ tls["w2"] = "w2"
  /\ state["w1"] = "Paused" /\ AtSuspension("w1")
  /\ state["w2"] = "Running" /\ pc["w2"] = "raw"
  /\ pc["main"] = "unpause_wait" /\ dh["main"] = "w2"

----
\* The worker is in closure code, between two suspension points.
BetweenSuspensions(w) == Executing(w) /\ state[w] = "Running"

\* C18: with the single driver of the tests at most one gate is Running and
\* at most one worker is between suspension points at any time; a worker is
\* at its raw access only inside the driver's unpause of its own handle, so
\* no two raw accesses are enabled together and each is one step.
GlobalSingleStepping ==
  /\ [](/\ Cardinality({g \in Workers : state[g] = "Running"}) <= 1
        /\ Cardinality({w \in Workers : BetweenSuspensions(w)}) <= 1
        /\ Cardinality({w \in Workers : pc[w] = "raw"}) <= 1
        /\ \A w \in Workers :
             pc[w] = "raw" =>
               /\ state[w] = "Running"
               /\ pc["main"] = "unpause_wait" /\ dh["main"] = w)
  /\ [][value' # value \/ local' # local =>
          \E t \in Threads :
            /\ pc[t] = "raw" /\ pc'[t] = AfterRawPc
            /\ \A u \in Threads \ {t} : pc'[u] = pc[u] /\ local'[u] = local[u]
       ]_vars

\* Worker 2 is at its raw store while worker 1, which has loaded, is held
\* at the suspension point before its own store.
GlobalSingleSteppingWitness ==
  /\ pc["w2"] = "raw" /\ ops["w2"] = <<"store">>
  /\ state["w2"] = "Running"
  /\ state["w1"] = "Paused" /\ pc["w1"] = "wait1" /\ ops["w1"] = <<"store">>
  /\ pc["main"] = "unpause_wait" /\ dh["main"] = "w2"

----
\* The driver is inside submit on h, after `*guard = State::Running` and
\* before the send, holding the gate's mutex.
SubmitBeforeSend(h) ==
  pc["main"] = "submit_send" /\ dh["main"] = h /\ mutex[h] = "main"

\* C19 as stated: a channel never holds more than one closure, it is empty
\* whenever the gate is Ready or Paused, and a worker blocked in receive on
\* an empty open channel always has its gate Ready.
ChannelOccupancyAsStated ==
  \A h \in Workers :
    /\ Len(chan[h]) <= 1
    /\ state[h] \in {"Ready", "Paused"} => chan[h] = <<>>
    /\ BlockedInReceive(h) => state[h] = "Ready"

\* C19, amended: a channel never holds more than one closure, it is empty
\* whenever the gate is Ready or Paused, and a worker blocked in receive on
\* an empty open channel has its gate Ready, or Running while the driver is
\* inside submit between setting the gate Running and sending the closure
\* (with the gate's mutex held).
ChannelOccupancy ==
  \A h \in Workers :
    /\ Len(chan[h]) <= 1
    /\ state[h] \in {"Ready", "Paused"} => chan[h] = <<>>
    /\ BlockedInReceive(h) =>
         \/ state[h] = "Ready"
         \/ state[h] = "Running" /\ SubmitBeforeSend(h)

\* The second submit to handle 1 has set the gate Running and not sent yet;
\* worker 1, back from its first closure, is blocked in receive.
ChannelOccupancyWitness ==
  /\ BlockedInReceive("w1")
  /\ completed["w1"] = 1
  /\ state["w1"] = "Running"
  /\ SubmitBeforeSend("w1")

----
\* The tests with Counter::increment replaced by the commented-out
\* alternative, a single fetch_add.

CallNextAtomic ==
  \E d \in Drivers :
    \/ Unpause(d)
    \/ Submit(d)
    \/ SubmitSend(d, IncrementFetchAdd)
    \/ SubmitWait(d)
    \/ DriverWake(d)

NextAtomic ==
  \/ WorkerNext
  \/ OpNext
  \/ CallNextAtomic
  \/ FreeDecide
  \/ FreeJoin
  \/ JoinNext

SpecAtomic == Init /\ [][NextAtomic]_vars

\* The increments that have made their raw access.
Applied(h) ==
  completed[h] + (IF pc[h] \in {"pause2", "wait2", "complete"} THEN 1 ELSE 0)

\* C20: with the single fetch_add as increment, in every interleaving the
\* counter equals the number of increments whose raw access has happened;
\* hence whenever every submitted increment has completed, and when the
\* driver has joined both workers and read the counter, it equals the
\* number of increments submitted, and assert_eq! does not fail.
AtomicConservation ==
  /\ value = Applied("w1") + Applied("w2")
  /\ (\A h \in Workers : completed[h] = submitted[h]) =>
       value = submitted["w1"] + submitted["w2"]
  /\ pc["main"] = "check" =>
       /\ local["main"] = counter_model
       /\ counter_model = submitted["w1"] + submitted["w2"]
  /\ panic["main"] # "assert_eq"

\* Three increments made by both workers, the last of them drained by
\* join; the final read sees all three.
AtomicConservationWitness ==
  /\ pc["main"] = "check"
  /\ local["main"] = 3
  /\ completed["w1"] >= 1 /\ completed["w2"] >= 1
  /\ dret["main"] = "join"

====
